---- MODULE Spec2Model ----
(***************************************************************************)
(* yb0sps_bridge.py: UDP -> HTTP bridge for N1MM and JTDX/WSJT-X.          *)
(*                                                                         *)
(* One main thread, one listener thread per enabled source, one           *)
(* short-lived thread per handled packet running post_form.               *)
(*                                                                         *)
(* Python str values are records [kind, len, repr]:                       *)
(*   kind = "lit"      a short literal, repr = <<the literal>>             *)
(*   kind = "xml"      well-formed XML that ET.fromstring parses,           *)
(*                     repr = the root's direct children                   *)
(*   kind = "nsxml"    well-formed XML that ET.fromstring refuses: a       *)
(*                     namespace URI holds '}', ElementTree's namespace    *)
(*                     separator, and expat from 2.4.5 on rejects that;    *)
(*                     an older expat parses the same text (kind "xml")    *)
(*   kind = "jsonobj"  text json.loads turns into a dict, repr = members   *)
(*   kind = "json"     valid JSON that is not an object                    *)
(*   kind = "bad"      neither XML nor JSON                                *)
(*   kind = "preview"  data[:300] + '...' of the text in repr              *)
(*   kind = "chars"    a text given by its code points (decoder harness)   *)
(* and a datagram's bytes are [kind = "bytes", len, repr = the bytes].     *)
(* len is the number of characters of a packet text (literals do not    *)
(* track it).  Dict keys (element tags, JSON property names) are          *)
(* sequences of tokens; "{" and "}" are tokens of their own so that the   *)
(* namespace split of parse_n1mm_xml is computed.                         *)
(***************************************************************************)
EXTENDS Integers, Sequences, FiniteSets, TLC

VARIABLES
  enabled,   \* N1MM_ENABLED, JTDX_ENABLED: source -> BOOLEAN, read once from config.ini
  mainpc,    \* position of main(): "start", "N1MM", "JTDX", "idle"
  threads,   \* main's list of started listener threads, by source
  lpc,       \* position of each start_udp_listener thread:
             \*   "none" not started, "bind", "recv", "handle", "sleep", "dead" (returned)
  cur,       \* the decoded text s a listener is about to pass to handle_packet
  nrecv,     \* datagrams sock.recvfrom has returned, per source
  nerr,      \* exceptions sock.recvfrom has raised, per source
  binds,     \* calls of sock.bind, per source
  rcvd,      \* history: <<source, k>> -> the text of the k-th datagram of that source
  units,     \* units[s]: the post_form threads the listener of s started, in start order:
             \*   [id, payload, pc, posts, lines], id = <<source, k>> the packet,
             \*   pc "running" or "done", posts = calls of requests.post,
             \*   lines = outcome lines logged
  log,       \* log[s]: the lines log() has written about source s, in the order written
             \*   (log["-"]: main's own lines); how the lines about different sources
             \*   interleave in the file is not recorded
  arg,       \* harnesses: the text given to the extractor, the bytes given to the decoder
  ret        \* harnesses: <<>> before the call, <<result>> after it

vars == <<enabled, mainpc, threads, lpc, cur, nrecv, nerr, binds, rcvd, units, log, arg, ret>>

\* ---------------------------------------------------------------- bounds
\* iterations of the receive loops in the whole process (sock.recvfrom returned or raised)
MaxLoops == 2
\* direct children of a root element in the extractor harness
MaxChildren == 2
\* bytes of a datagram in the decoder harness
MaxBytes == 3

\* ------------------------------------------------------------- constants
Sources == {"N1MM", "JTDX"}

\* len(data) < 300 decides whether the log preview is cut
PreviewLimit == 300

Lit(s) == [kind |-> "lit", len |-> 1, repr |-> <<s>>]

AUTH_TOKEN == Lit("ABC123")

Key(s) == <<s>>

BaseKeys == {Key("source"), Key("data_raw"), Key("token")}

\* child.text of an element: None is <<>>, a text t is <<t>>
None == <<>>

\* --------------------------------------------------------- packet texts
Child(tag, text, sub) == [tag |-> tag, text |-> text, sub |-> sub]

Xml(n, children) == [kind |-> "xml", len |-> n, repr |-> children]

Member(k, t, v) == [key |-> Key(k), val |-> [t |-> t, lit |-> v]]

JsonObj(n, members) == [kind |-> "jsonobj", len |-> n, repr |-> members]

\* <contactinfo><call>K1ABC</call><band>20m</band></contactinfo>
XmlContact ==
  Xml(61, <<Child(Key("call"), <<"K1ABC">>, <<>>), Child(Key("band"), <<"20m">>, <<>>)>>)

\* <r><call>K1ABC</call><token>X</token></r>
XmlShadow ==
  Xml(42, <<Child(Key("call"), <<"K1ABC">>, <<>>), Child(Key("token"), <<"X">>, <<>>)>>)

\* {"freq": 14074000, "mode": "FT8"}
JsonSpot == JsonObj(33, <<Member("freq", "int", "14074000"), Member("mode", "str", "FT8")>>)

\* {}
JsonEmpty == JsonObj(2, <<>>)

\* [1, 2]
JsonArray == [kind |-> "json", len |-> 6, repr |-> <<>>]

\* 300 characters of unterminated XML
LongGarbage == [kind |-> "bad", len |-> 300, repr |-> <<>>]

\* the texts the listeners' datagrams decode to
PacketTexts ==
  {XmlShadow, JsonSpot, LongGarbage}

\* ------------------------------------------------------- dict operations
EmptyDict == [k \in {} |-> None]

\* d[k] = v
Put(d, k, v) == [x \in DOMAIN d \cup {k} |-> IF x = k THEN v ELSE d[x]]

\* for k, v in src.items(): d[k] = v
Update(d, src) == [x \in DOMAIN d \cup DOMAIN src |-> IF x \in DOMAIN src THEN src[x] ELSE d[x]]

\* ------------------------------------------------------- parse_n1mm_xml
HasBrace(tag) == \E i \in 1..Len(tag) : tag[i] = "}"

FirstBrace(tag) == CHOOSE i \in 1..Len(tag) : tag[i] = "}" /\ \A j \in 1..(i - 1) : tag[j] # "}"

\* the namespace is kept
LocalNameKept(tag) == tag

\* tag.split('}', 1)[1] when '}' is in tag
LocalName(tag) == IF HasBrace(tag) THEN SubSeq(tag, FirstBrace(tag) + 1, Len(tag)) ELSE tag

\* child.text if child.text is not None else ''
TextOf(child) == IF child.text # None THEN Lit(child.text[1]) ELSE Lit("")

RECURSIVE XmlLoop(_, _)
\* for child in root: out[tag] = ...
XmlLoop(children, out) ==
  IF children = <<>> THEN out
  ELSE XmlLoop(Tail(children), Put(out, LocalName(Head(children).tag), TextOf(Head(children))))

\* ET.fromstring(data) returns the root; it raises on anything else
XmlParses(data) == data.kind = "xml"

\* a failed parse reports itself as a field
parse_n1mm_xml_error_field(data) ==
  IF XmlParses(data) THEN XmlLoop(data.repr, EmptyDict) ELSE Put(EmptyDict, Key("error"), Lit("parse"))

\* the dict parse_n1mm_xml returns
parse_n1mm_xml(data) == IF XmlParses(data) THEN XmlLoop(data.repr, EmptyDict) ELSE EmptyDict

\* whether parse_n1mm_xml logs "XML parse error"
XmlLogsError(data) == ~XmlParses(data)

\* ------------------------------------------------------- try_parse_json
\* str(v) of a value json.loads produced
PyStr(val) ==
  CASE val.t = "null" -> Lit("None")
    [] val.t = "bool" -> Lit(IF val.lit = "true" THEN "True" ELSE "False")
    [] OTHER -> Lit(val.lit)

RECURSIVE JsonLoop(_, _)
\* {k: str(v) for k, v in obj.items()}, obj built by json.loads (a repeated name: the last wins)
JsonLoop(members, out) ==
  IF members = <<>> THEN out
  ELSE JsonLoop(Tail(members), Put(out, Head(members).key, PyStr(Head(members).val)))

try_parse_json(data) == IF data.kind = "jsonobj" THEN JsonLoop(data.repr, EmptyDict) ELSE EmptyDict

\* ------------------------------------------------------- handle_packet
\* short = data if len(data) < 300 else data[:300] + '...'
Preview(data) ==
  IF data.len < PreviewLimit THEN data
  ELSE [kind |-> "preview", len |-> PreviewLimit + 3, repr |-> <<data>>]

\* whether handle_packet calls parse_n1mm_xml
UsesXml(source, data) == source = "N1MM" \/ try_parse_json(data) = EmptyDict

\* JSON is tried first for every source
ExtractJsonFirst(source, data) ==
  IF try_parse_json(data) # EmptyDict THEN try_parse_json(data) ELSE parse_n1mm_xml(data)

\* the fields handle_packet copies into the payload
Extract(source, data) ==
  IF source = "N1MM" THEN parse_n1mm_xml(data)
  ELSE IF try_parse_json(data) # EmptyDict THEN try_parse_json(data)
  ELSE parse_n1mm_xml(data)

BasePayload(source, data) ==
  Put(Put(Put(EmptyDict, Key("source"), Lit(source)), Key("data_raw"), data), Key("token"), AUTH_TOKEN)

\* the dict handed to post_form
BuildPayload(source, data) == Update(BasePayload(source, data), Extract(source, data))

\* ---------------------------------------------------------------- log
NoText == Lit("")

Line(k, source, n, msg) == [k |-> k, src |-> source, n |-> n, msg |-> msg]

\* the lines parse_n1mm_xml adds while handle_packet extracts
ParseLines(source, n, data) ==
  IF UsesXml(source, data) /\ XmlLogsError(data) THEN <<Line("xmlerr", source, n, NoText)>> ELSE <<>>

\* ----------------------------------------------------------- post_form
\* what requests.post does: a response with a status code, or an exception
Outcomes ==
  { [exc |-> FALSE, what |-> "200"], [exc |-> FALSE, what |-> "500"],
    [exc |-> TRUE, what |-> "timeout"] }

\* post_form(payload) called in the listener thread instead of in a thread of its own
NewUnitJoined(id, payload) == [id |-> id, payload |-> payload, pc |-> "done", posts |-> 1, lines |-> 1]

NewUnit(id, payload) == [id |-> id, payload |-> payload, pc |-> "running", posts |-> 0, lines |-> 0]

\* a failed POST is tried again
PostedRetry(u, o) ==
  IF o.exc THEN [u EXCEPT !.posts = @ + 1, !.lines = @ + 1]
  ELSE [u EXCEPT !.pc = "done", !.posts = @ + 1, !.lines = @ + 1]

\* an exception of requests.post is swallowed without its log line
PostedSilent(u, o) == [u EXCEPT !.pc = "done", !.posts = @ + 1, !.lines = IF o.exc THEN @ ELSE @ + 1]

\* the unit after requests.post returned or raised and the outcome was logged
Posted(u, o) == [u EXCEPT !.pc = "done", !.posts = @ + 1, !.lines = @ + 1]

\* the line post_form logs
PostLine(id, o) == Line(IF o.exc THEN "posterr" ELSE "post", id[1], id[2], Lit(o.what))

\* the threads of one source post one after the other, in the order they were started
RunnableInOrder(s, i) ==
  units[s][i].pc = "running" /\ \A j \in 1..(i - 1) : units[s][j].pc = "done"

\* a started thread runs whenever the scheduler lets it: it waits for no other thread
Runnable(s, i) == units[s][i].pc = "running"

\* the thread body: one requests.post, then the outcome line
post_form(s, i, o) ==
  /\ i \in DOMAIN units[s]
  /\ Runnable(s, i)
  /\ units' = [units EXCEPT ![s][i] = Posted(units[s][i], o)]
  /\ log' = [log EXCEPT ![s] = Append(@, PostLine(units[s][i].id, o))]
  /\ UNCHANGED <<enabled, mainpc, threads, lpc, cur, nrecv, nerr, binds, rcvd, arg, ret>>

\* ------------------------------------------------------------ listener
Total(f) == f["N1MM"] + f["JTDX"]

\* sock.bind succeeds: the listener enters the receive loop
BindOk(s) ==
  /\ lpc[s] = "bind"
  /\ binds' = [binds EXCEPT ![s] = @ + 1]
  /\ lpc' = [lpc EXCEPT ![s] = "recv"]
  /\ log' = [log EXCEPT ![s] = Append(@, Line("listening", s, 0, NoText))]
  /\ UNCHANGED <<rcvd, enabled, mainpc, threads, cur, nrecv, nerr, units, arg, ret>>

\* the bind is tried again
AfterBindFailRetry == "bind"

\* where a listener whose bind failed goes
AfterBindFail == "dead"

\* sock.bind raises: log and return
BindFail(s) ==
  /\ lpc[s] = "bind"
  /\ binds' = [binds EXCEPT ![s] = @ + 1]
  /\ lpc' = [lpc EXCEPT ![s] = AfterBindFail]
  /\ log' = [log EXCEPT ![s] = Append(@, Line("bindfail", s, 0, NoText))]
  /\ UNCHANGED <<rcvd, enabled, mainpc, threads, cur, nrecv, nerr, units, arg, ret>>

\* the next datagram is taken while the last one is still being handled
AtRecvfromOrHandling(s) == lpc[s] \in {"recv", "handle"}

\* the listener thread is at sock.recvfrom
AtRecvfrom(s) == lpc[s] = "recv"

\* sock.recvfrom returns a datagram; t is its text after decode and rstrip
Recv(s, t) ==
  /\ AtRecvfrom(s)
  /\ Total(nrecv) + Total(nerr) < MaxLoops
  /\ nrecv' = [nrecv EXCEPT ![s] = @ + 1]
  /\ cur' = [cur EXCEPT ![s] = t]
  /\ rcvd' = [id \in DOMAIN rcvd \cup {<<s, nrecv[s] + 1>>} |->
                 IF id = <<s, nrecv[s] + 1>> THEN t ELSE rcvd[id]]
  /\ lpc' = [lpc EXCEPT ![s] = "handle"]
  /\ UNCHANGED <<enabled, mainpc, threads, nerr, binds, units, log, arg, ret>>

\* sock.recvfrom raises: log, then time.sleep(1)
RecvError(s) ==
  /\ lpc[s] = "recv"
  /\ Total(nrecv) + Total(nerr) < MaxLoops
  /\ nerr' = [nerr EXCEPT ![s] = @ + 1]
  /\ lpc' = [lpc EXCEPT ![s] = "sleep"]
  /\ log' = [log EXCEPT ![s] = Append(@, Line("recverr", s, 0, NoText))]
  /\ UNCHANGED <<rcvd, enabled, mainpc, threads, cur, nrecv, binds, units, arg, ret>>

\* the listener returns after its first packet
AfterHandleReturn == "dead"

\* where the listener is after handle_packet returned
AfterHandle == "recv"

\* the handler leaves the loop
AfterSleepBreak == "dead"

\* where the listener is after time.sleep(1)
AfterSleep == "recv"

\* time.sleep(1) returns: next iteration of the receive loop
Wake(s) ==
  /\ lpc[s] = "sleep"
  /\ lpc' = [lpc EXCEPT ![s] = AfterSleep]
  /\ UNCHANGED <<rcvd, enabled, mainpc, threads, cur, nrecv, nerr, binds, units, log, arg, ret>>

\* payload is one dict shared by all packets
StartUnitShared(s, n, data) ==
  LET shared == IF units[s] = <<>> THEN BuildPayload(s, data)
                ELSE Update(units[s][Len(units[s])].payload, BuildPayload(s, data))
  IN [units EXCEPT ![s] = Append([i \in DOMAIN units[s] |-> [units[s][i] EXCEPT !.payload = shared]],
                                 NewUnit(<<s, n>>, shared))]

\* a thread is started only when fields were extracted
StartUnitIfParsed(s, n, data) ==
  IF Extract(s, data) = EmptyDict THEN units
  ELSE [units EXCEPT ![s] = Append(@, NewUnit(<<s, n>>, BuildPayload(s, data)))]

\* the units after handle_packet started its thread
StartUnit(s, n, data) == [units EXCEPT ![s] = Append(@, NewUnit(<<s, n>>, BuildPayload(s, data)))]

\* handle_packet(source, s, addr) runs to the end
HandleOk(s) ==
  /\ lpc[s] = "handle"
  /\ log' = [log EXCEPT ![s] = @ \o <<Line("rx", s, nrecv[s], Preview(cur[s]))>>
                                    \o ParseLines(s, nrecv[s], cur[s])]
  /\ units' = StartUnit(s, nrecv[s], cur[s])
  /\ lpc' = [lpc EXCEPT ![s] = AfterHandle]
  /\ cur' = [cur EXCEPT ![s] = NoText]
  /\ UNCHANGED <<rcvd, enabled, mainpc, threads, nrecv, nerr, binds, arg, ret>>

\* the exception leaves the receive loop and the listener thread ends
AfterRaiseUncaught == "dead"

\* where the listener is after the receive loop's handler logged an exception of handle_packet
AfterRaise == "sleep"

\* handle_packet raises before its thread runs; the receive loop's handler logs and sleeps.
\* at = "log": print() of the receipt line raises (text the console cannot encode);
\* at = "thread": t.start() raises (no more threads).
HandleFail(s, at) ==
  /\ lpc[s] = "handle"
  /\ log' = [log EXCEPT ![s] = @ \o (IF at = "thread"
                                       THEN <<Line("rx", s, nrecv[s], Preview(cur[s]))>>
                                            \o ParseLines(s, nrecv[s], cur[s])
                                       ELSE <<>>)
                                    \o <<Line("recverr", s, nrecv[s], NoText)>>]
  /\ lpc' = [lpc EXCEPT ![s] = AfterRaise]
  /\ cur' = [cur EXCEPT ![s] = NoText]
  /\ UNCHANGED <<rcvd, enabled, mainpc, threads, nrecv, nerr, binds, units, arg, ret>>

\* ---------------------------------------------------------------- main
MainStart ==
  /\ mainpc = "start"
  /\ mainpc' = "N1MM"
  /\ log' = [log EXCEPT !["-"] = Append(@, Line("starting", "-", 0, NoText))]
  /\ UNCHANGED <<rcvd, enabled, threads, lpc, cur, nrecv, nerr, binds, units, arg, ret>>

AfterMain(s) == IF s = "N1MM" THEN "JTDX" ELSE "idle"

\* the enable flag is ignored
StartsAlways(s) == TRUE

\* whether main starts a listener for s
Starts(s) == enabled[s]

\* if X_ENABLED: start the listener thread, else log that it is disabled
MainSource(s) ==
  /\ mainpc = s
  /\ mainpc' = AfterMain(s)
  /\ IF Starts(s)
       THEN /\ threads' = Append(threads, s)
            /\ lpc' = [lpc EXCEPT ![s] = "bind"]
            /\ log' = log
       ELSE /\ log' = [log EXCEPT ![s] = Append(@, Line("disabled", s, 0, NoText))]
            /\ UNCHANGED <<threads, lpc>>
  /\ UNCHANGED <<rcvd, enabled, cur, nrecv, nerr, binds, units, arg, ret>>

\* ---------------------------------------------------------------- spec
Init ==
  /\ enabled \in [Sources -> BOOLEAN]
  /\ mainpc = "start"
  /\ threads = <<>>
  /\ lpc = [s \in Sources |-> "none"]
  /\ cur = [s \in Sources |-> NoText]
  /\ nrecv = [s \in Sources |-> 0]
  /\ nerr = [s \in Sources |-> 0]
  /\ binds = [s \in Sources |-> 0]
  /\ rcvd = EmptyDict
  /\ units = [s \in Sources |-> <<>>]
  /\ log = [s \in Sources \cup {"-"} |-> <<>>]
  /\ arg = NoText
  /\ ret = <<>>

Next ==
  \/ MainStart
  \/ \E s \in Sources : MainSource(s)
  \/ \E s \in Sources : BindOk(s)
  \/ \E s \in Sources : BindFail(s)
  \/ \E s \in Sources, t \in PacketTexts : Recv(s, t)
  \/ \E s \in Sources : RecvError(s)
  \/ \E s \in Sources : Wake(s)
  \/ \E s \in Sources : HandleOk(s)
  \/ \E s \in Sources, at \in {"log", "thread"} : HandleFail(s, at)
  \/ \E s \in Sources : \E i \in DOMAIN units[s], o \in Outcomes : post_form(s, i, o)

Spec == Init /\ [][Next]_vars

\* time.sleep(1) returns
Fairness == \A s \in Sources : WF_vars(Wake(s))

FairSpec == Spec /\ Fairness

\* ------------------------------------------------- process termination
\* the interpreter has not exited
Running == mainpc # "stopped"

\* KeyboardInterrupt reaches the main thread and the process exits.  In the idle loop main
\* catches it and logs 'Stopping'; before the loop it leaves main uncaught.  Listener and
\* post_form threads are daemon threads: they end with the process wherever they are.
Interrupt ==
  /\ Running
  /\ mainpc' = "stopped"
  /\ log' = IF mainpc = "idle" THEN [log EXCEPT !["-"] = Append(@, Line("stopping", "-", 0, NoText))]
            ELSE log
  /\ UNCHANGED <<enabled, threads, lpc, cur, nrecv, nerr, binds, rcvd, units, arg, ret>>

\* what a datagram holds plays no part in how the process ends: one text
TermTexts == {JsonSpot}

\* the steps of Next while the process runs, and its end
TermNext ==
  \/ Running /\ MainStart
  \/ \E s \in Sources : Running /\ MainSource(s)
  \/ \E s \in Sources : Running /\ BindOk(s)
  \/ \E s \in Sources : Running /\ BindFail(s)
  \/ \E s \in Sources, t \in TermTexts : Running /\ Recv(s, t)
  \/ \E s \in Sources : Running /\ RecvError(s)
  \/ \E s \in Sources : Running /\ Wake(s)
  \/ \E s \in Sources : Running /\ HandleOk(s)
  \/ \E s \in Sources, at \in {"log", "thread"} : Running /\ HandleFail(s, at)
  \/ \E s \in Sources : \E i \in DOMAIN units[s], o \in Outcomes : Running /\ post_form(s, i, o)
  \/ Interrupt

TermSpec == Init /\ [][TermNext]_vars

\* while the process runs: time.sleep(1) returns, and requests.post(..., timeout=10) returns
\* or raises
TermFairness ==
  /\ \A s \in Sources : WF_vars(Running /\ Wake(s))
  /\ \A s \in Sources : \A i \in 1..MaxLoops : WF_vars(Running /\ \E o \in Outcomes : post_form(s, i, o))

TermFairSpec == TermSpec /\ TermFairness

\* ------------------------------------------------- extractor harness
\* expanded tag ElementTree gives an element: {uri}local, or local without a namespace
ElementTag(ns, local) == IF ns = <<>> THEN <<local>> ELSE <<"{">> \o ns \o <<"}", local>>

\* namespace URIs: none, "u", and "v}u"
Namespaces == {<<>>, <<"u">>, <<"v", "}", "u">>}

Locals == {"call", "band"}

ElementTexts == {None, <<"K1ABC">>, <<"W1AW">>}

GrandChildren == {<<>>, <<Child(Key("deep"), <<"x">>, <<>>)>>}

ChildKinds ==
  {Child(ElementTag(ns, l), t, g) : ns \in Namespaces, l \in Locals, t \in ElementTexts, g \in GrandChildren}

\* a namespace URI of this element holds '}'
BraceInNamespace(child) == \E i \in 2..(Len(child.tag) - 2) : child.tag[i] = "}"

ChildSeqs == UNION {[1..n -> ChildKinds] : n \in 0..MaxChildren}

\* what the parser makes of a well-formed text: with '}' in a namespace URI it depends on expat
XmlDocs ==
  {d \in {[kind |-> k, len |-> 20 + 10 * Len(c), repr |-> c] : k \in {"xml", "nsxml"}, c \in ChildSeqs} :
     d.kind = "nsxml" => \E i \in DOMAIN d.repr : BraceInNamespace(d.repr[i])}

ExtractorTexts == XmlDocs \cup {XmlContact, XmlShadow, JsonSpot, JsonEmpty, JsonArray, LongGarbage}

ExtractorInit ==
  /\ enabled = [s \in Sources |-> TRUE]
  /\ mainpc = "start"
  /\ threads = <<>>
  /\ lpc = [s \in Sources |-> "none"]
  /\ cur = [s \in Sources |-> NoText]
  /\ nrecv = [s \in Sources |-> 0]
  /\ nerr = [s \in Sources |-> 0]
  /\ binds = [s \in Sources |-> 0]
  /\ rcvd = EmptyDict
  /\ units = [s \in Sources |-> <<>>]
  /\ log = [s \in Sources \cup {"-"} |-> <<>>]
  /\ arg \in ExtractorTexts
  /\ ret = <<>>

\* out = parse_n1mm_xml(arg)
CallXml ==
  /\ ret = <<>>
  /\ ret' = <<parse_n1mm_xml(arg)>>
  /\ UNCHANGED <<enabled, mainpc, threads, lpc, cur, nrecv, nerr, binds, rcvd, units, log, arg>>

ExtractorNext == CallXml

ExtractorSpec == ExtractorInit /\ [][ExtractorNext]_vars

\* --------------------------------------------------- handler harness
\* {"grid": null, "tx": true}
JsonNull == JsonObj(27, <<Member("grid", "null", "null"), Member("tx", "bool", "true")>>)

\* {"call": "K1ABC", "call": "W1AW", "snr": -12}
JsonRepeat ==
  JsonObj(42, <<Member("call", "str", "K1ABC"), Member("call", "str", "W1AW"), Member("snr", "int", "-12")>>)

HandlerTexts == ExtractorTexts \cup {JsonNull, JsonRepeat}

\* the parsers handle_packet calls, in call order
ParserCalls(source, data) ==
  IF source = "N1MM" THEN <<"xml">>
  ELSE IF try_parse_json(data) # EmptyDict THEN <<"json">>
  ELSE <<"json", "xml">>

HandlerInit ==
  /\ enabled = [s \in Sources |-> TRUE]
  /\ mainpc = "start"
  /\ threads = <<>>
  /\ lpc = [s \in Sources |-> "none"]
  /\ cur = [s \in Sources |-> NoText]
  /\ nrecv = [s \in Sources |-> 0]
  /\ nerr = [s \in Sources |-> 0]
  /\ binds = [s \in Sources |-> 0]
  /\ rcvd = EmptyDict
  /\ units = [s \in Sources |-> <<>>]
  /\ log = [s \in Sources \cup {"-"} |-> <<>>]
  /\ arg \in HandlerTexts
  /\ ret = <<>>

\* the extraction part of handle_packet(source, arg, addr): which parsers ran, the fields
\* copied into the payload, the lines the parsers logged
CallExtract(source) ==
  /\ ret = <<>>
  /\ ret' = <<[source |-> source,
               calls |-> ParserCalls(source, arg),
               fields |-> Extract(source, arg),
               lines |-> ParseLines(source, 1, arg)]>>
  /\ UNCHANGED <<enabled, mainpc, threads, lpc, cur, nrecv, nerr, binds, rcvd, units, log, arg>>

HandlerNext == \E source \in Sources : CallExtract(source)

HandlerSpec == HandlerInit /\ [][HandlerNext]_vars

\* --------------------------------------------------- decoder harness
\* a datagram as sock.recvfrom returns it
Bytes(b) == [kind |-> "bytes", len |-> Len(b), repr |-> b]

\* a str given by its code points
Chars(c) == [kind |-> "chars", len |-> Len(c), repr |-> c]

\* U+FFFD, what errors='replace' puts for bytes that are not UTF-8
Replacement == 65533

\* 0x80..0xBF
IsCont(x) == 128 <= x /\ x <= 191

\* 0xC2..0xDF: first byte of a two-byte sequence (0xC0 and 0xC1 would be overlong: invalid)
IsLead2(x) == 194 <= x /\ x <= 223

\* 0xE1..0xEC: first byte of a three-byte sequence whose second byte may be any 0x80..0xBF
IsLead3(x) == 225 <= x /\ x <= 236

RECURSIVE Utf8Replace(_)
\* data.decode('utf-8', errors='replace') for bytes below 0xE0, 0xE1..0xEC and 0xF5..0xFF:
\* a complete sequence gives its code point; a first byte with its continuation bytes
\* missing gives one U+FFFD for the bytes that were there; any other byte gives U+FFFD
Utf8Replace(b) ==
  IF b = <<>> THEN <<>>
  ELSE LET h == Head(b)
           n == Len(b)
       IN IF h < 128 THEN <<h>> \o Utf8Replace(Tail(b))
          ELSE IF IsLead2(h) /\ n >= 2 /\ IsCont(b[2])
            THEN <<(h - 192) * 64 + (b[2] - 128)>> \o Utf8Replace(SubSeq(b, 3, n))
          ELSE IF IsLead3(h) /\ n >= 3 /\ IsCont(b[2]) /\ IsCont(b[3])
            THEN <<(h - 224) * 4096 + (b[2] - 128) * 64 + (b[3] - 128)>> \o Utf8Replace(SubSeq(b, 4, n))
          ELSE IF IsLead3(h) /\ n >= 2 /\ IsCont(b[2])
            THEN <<Replacement>> \o Utf8Replace(SubSeq(b, 3, n))
          ELSE <<Replacement>> \o Utf8Replace(Tail(b))

\* only one trailing NUL is removed
RStripOnce(c) == IF c # <<>> /\ c[Len(c)] = 0 THEN SubSeq(c, 1, Len(c) - 1) ELSE c

RECURSIVE RStrip(_)
\* .rstrip('\x00')
RStrip(c) == IF c # <<>> /\ c[Len(c)] = 0 THEN RStrip(SubSeq(c, 1, Len(c) - 1)) ELSE c

\* s of start_udp_listener; decode with errors='replace' raises for no bytes object, so the
\* str(data) of the except branch is never taken
Decoded(data) == Chars(RStrip(Utf8Replace(data.repr)))

\* NUL, 'A', 0x80 (continuation), 0xC0 (overlong first byte), 0xC3 and 0xE2 (first bytes), 0xFF
ByteValues == {0, 65, 128, 192, 195, 226, 255}

Datagrams == {Bytes(b) : b \in UNION {[1..n -> ByteValues] : n \in 0..MaxBytes}}

DecoderInit ==
  /\ enabled = [s \in Sources |-> TRUE]
  /\ mainpc = "start"
  /\ threads = <<>>
  /\ lpc = [s \in Sources |-> "none"]
  /\ cur = [s \in Sources |-> NoText]
  /\ nrecv = [s \in Sources |-> 0]
  /\ nerr = [s \in Sources |-> 0]
  /\ binds = [s \in Sources |-> 0]
  /\ rcvd = EmptyDict
  /\ units = [s \in Sources |-> <<>>]
  /\ log = [s \in Sources \cup {"-"} |-> <<>>]
  /\ arg \in Datagrams
  /\ ret = <<>>

\* s = data.decode('utf-8', errors='replace').rstrip('\x00')
Decode ==
  /\ ret = <<>>
  /\ ret' = <<Decoded(arg)>>
  /\ UNCHANGED <<enabled, mainpc, threads, lpc, cur, nrecv, nerr, binds, rcvd, units, log, arg>>

DecoderNext == Decode

DecoderSpec == DecoderInit /\ [][DecoderNext]_vars

\* ------------------------------------------------------------ properties
\* every dispatch unit, as <<source, position>>
Units == UNION {{<<s, i>> : i \in DOMAIN units[s]} : s \in Sources}

Unit(x) == units[x[1]][x[2]]

UnitsOf(id) == {x \in Units : Unit(x).id = id}

\* positions in log[source] of the lines of these kinds about packet id
LinesOf(kinds, id) == {i \in DOMAIN log[id[1]] : log[id[1]][i].k \in kinds /\ log[id[1]][i].n = id[2]}

KindsAbout(s) == {log[s][i].k : i \in DOMAIN log[s]}

\* packets whose handle_packet call has ended
Handled == {id \in DOMAIN rcvd : id[2] < nrecv[id[1]] \/ lpc[id[1]] # "handle"}

\* handle_packet raised for this packet: the receive loop logged it under the packet's number
Raised(id) == LinesOf({"recverr"}, id) # {}

\* the text parses neither as XML (N1MM) nor as a JSON object or XML (JTDX)
Malformed(id) ==
  IF id[1] = "N1MM" THEN rcvd[id].kind # "xml" ELSE rcvd[id].kind \notin {"xml", "jsonobj"}

\* C1: in every payload handed to a dispatch unit, source is the listener's tag, data_raw is
\* the full text of the packet and token is the configured token, whatever was extracted.
C1_BaseKeysKeepTheirValues ==
  \A i \in Units :
    /\ BaseKeys \subseteq DOMAIN Unit(i).payload
    /\ Unit(i).payload[Key("source")] = Lit(Unit(i).id[1])
    /\ Unit(i).payload[Key("data_raw")] = rcvd[Unit(i).id]
    /\ Unit(i).payload[Key("token")] = AUTH_TOKEN

\* C2: at every moment the payload of every dispatch unit, in flight or finished, has exactly
\* the keys extracted from its own packet plus source, data_raw and token, and every value
\* comes from that packet (or is the base value): nothing of another packet is in it, and
\* later packets do not change it.
C2_PayloadOfOnePacket ==
  \A i \in Units :
    LET id == Unit(i).id
        fields == Extract(id[1], rcvd[id])
        p == Unit(i).payload
    IN /\ DOMAIN p = BaseKeys \cup DOMAIN fields
       /\ \A k \in DOMAIN p :
            p[k] = IF k \in DOMAIN fields THEN fields[k]
                   ELSE IF k = Key("source") THEN Lit(id[1])
                   ELSE IF k = Key("data_raw") THEN rcvd[id]
                   ELSE AUTH_TOKEN

\* a unit of an earlier packet is still in flight after a later packet with other keys was
\* handed off
C2_Witness ==
  \E i, j \in Units :
    /\ i[1] = j[1] /\ i[2] < j[2]
    /\ Unit(i).pc = "running"
    /\ DOMAIN Unit(i).payload # DOMAIN Unit(j).payload
    /\ DOMAIN Unit(j).payload # BaseKeys

\* C3: the step in which a listener hands a packet to a dispatch unit leaves the listener at
\* its receive step with that unit still to run, and leaves every unit already in flight as
\* it was: the listener waits for none of them.
C3_DispatchDoesNotBlock ==
  [][\A s \in Sources :
       Len(units'[s]) > Len(units[s]) =>
         /\ lpc[s] = "handle" /\ lpc'[s] = "recv"
         /\ units'[s][Len(units'[s])].pc = "running"
         /\ \A i \in Units : units'[i[1]][i[2]] = Unit(i)]_vars

\* packet 2 of a source was received and handed off while the POST of its packet 1 is in flight
C3_Witness ==
  \E s \in Sources : \E i, j \in Units :
    /\ Unit(i).id = <<s, 1>> /\ Unit(i).pc = "running"
    /\ Unit(j).id = <<s, 2>> /\ Unit(j).pc = "running"
    /\ lpc[s] = "recv"

BindFailed(s) == "bindfail" \in KindsAbout(s)

\* C4: a listener whose bind failed has logged exactly one bind error, has called bind once,
\* has returned for good, and has never announced itself, received, or dispatched; a
\* listener only ever stops that way.
C4_BindFailureStopsOneListener ==
  \A s \in Sources :
    /\ BindFailed(s) =>
         /\ lpc[s] = "dead"
         /\ binds[s] = 1
         /\ log[s] = <<Line("bindfail", s, 0, NoText)>>
         /\ nrecv[s] = 0 /\ nerr[s] = 0
         /\ \A i \in Units : Unit(i).id[1] # s
    /\ lpc[s] = "dead" => BindFailed(s)

\* the N1MM bind failed and the JTDX listener has received a packet and seen it posted
C4_Witness ==
  /\ BindFailed("N1MM")
  /\ \E i \in Units : Unit(i).id[1] = "JTDX" /\ Unit(i).pc = "done"

\* C5: a receive error makes the listener log it and sleep, starts no dispatch unit, and a
\* sleeping listener always gets back to receiving.
C5_ReceiveErrorIsNotFatal ==
  /\ [][\A s \in Sources :
          nerr'[s] > nerr[s] =>
            /\ lpc'[s] = "sleep"
            /\ units' = units
            /\ log' = [log EXCEPT ![s] = Append(@, Line("recverr", s, 0, NoText))]]_vars
  /\ \A s \in Sources : (lpc[s] = "sleep") ~> (lpc[s] = "recv")

\* a listener logged a receive error and afterwards received a datagram
C5_Witness ==
  \E s \in Sources : \E i, j \in DOMAIN log[s] :
    /\ i < j
    /\ nerr[s] > 0
    /\ log[s][i].k = "recverr" /\ log[s][i].n = 0
    /\ log[s][j].k = "rx"

Count(seq, x) == Cardinality({i \in DOMAIN seq : seq[i] = x})

\* C6: main starts at most one listener per source, and once it idles exactly one for each
\* enabled source and none for a disabled one; a disabled source never binds, receives or
\* dispatches and the only log line about it is the one 'disabled' line.
C6_OneListenerPerEnabledSource ==
  \A s \in Sources :
    /\ Count(threads, s) <= 1
    /\ mainpc = "idle" => Count(threads, s) = (IF enabled[s] THEN 1 ELSE 0)
    /\ ~enabled[s] =>
         /\ Count(threads, s) = 0
         /\ lpc[s] = "none"
         /\ binds[s] = 0 /\ nrecv[s] = 0 /\ nerr[s] = 0
         /\ \A i \in Units : Unit(i).id[1] # s
         /\ KindsAbout(s) \subseteq {"disabled"}
         /\ mainpc = "idle" => log[s] = <<Line("disabled", s, 0, NoText)>>
    /\ enabled[s] => "disabled" \notin KindsAbout(s)

\* N1MM is disabled, main idles, and the JTDX listener has had a packet posted
C6_Witness ==
  /\ ~enabled["N1MM"] /\ enabled["JTDX"]
  /\ mainpc = "idle"
  /\ \E i \in Units : Unit(i).id[1] = "JTDX" /\ Unit(i).pc = "done"

C9_OnePostOneOutcomeLine ==
  \A i \in Units :
    /\ Unit(i).posts <= 1 /\ Unit(i).lines <= 1
    /\ Unit(i).posts = (IF Unit(i).pc = "done" THEN 1 ELSE 0)
    /\ Unit(i).lines = Unit(i).posts
    /\ \A j \in UnitsOf(Unit(i).id) :
         Cardinality(LinesOf({"post", "posterr"}, Unit(i).id)) = Unit(j).lines

\* a POST failed with an exception, one with a non-2xx status, both are finished, and the
\* listener is receiving
C9_Witness ==
  \E i, j \in Units :
    /\ Unit(i).pc = "done" /\ Unit(j).pc = "done"
    /\ \E l \in LinesOf({"posterr"}, Unit(i).id) : log[i[1]][l].msg = Lit("timeout")
    /\ \E l \in LinesOf({"post"}, Unit(j).id) : log[j[1]][l].msg = Lit("500")
    /\ lpc[Unit(i).id[1]] = "recv"

\* the key an element contributes: its local name (the last token of its expanded tag)
LocalOf(child) == <<child.tag[Len(child.tag)]>>

\* the namespace URI has no '}' in it
PlainNamespace(child) == ~BraceInNamespace(child)

WellFormed(data) == data.kind \in {"xml", "nsxml"}

IsSuffix(k, tag) == Len(k) <= Len(tag) /\ SubSeq(tag, Len(tag) - Len(k) + 1, Len(tag)) = k

\* C10: for well-formed XML with N direct children the map has exactly N entries, one per
\* child under its local name.
C10_OneEntryPerChild ==
  (ret # <<>> /\ WellFormed(arg)) =>
    /\ Cardinality(DOMAIN ret[1]) = Len(arg.repr)
    /\ \A i \in DOMAIN arg.repr : LocalOf(arg.repr[i]) \in DOMAIN ret[1]

\* C10 as amended: for well-formed XML that the parser accepts the map has one entry per
\* distinct key among the direct children (at most N, and N when the keys are pairwise
\* distinct); a child's key is its local name when its namespace URI contains no '}', and
\* always a suffix of its expanded tag; the value is the text ('' if none) of the last child
\* with that key; grandchildren contribute nothing.  Well-formed XML that the parser refuses
\* yields the empty map.
C10_OneEntryPerDistinctKey ==
  (ret # <<>> /\ WellFormed(arg)) =>
    LET out == ret[1]
        kids == arg.repr
        plain == {i \in DOMAIN kids : PlainNamespace(kids[i])}
        keys == {LocalOf(kids[i]) : i \in plain}
        last(k) == CHOOSE i \in plain : LocalOf(kids[i]) = k /\ \A j \in plain : LocalOf(kids[j]) = k => j <= i
    IN IF arg.kind = "nsxml" THEN out = EmptyDict
       ELSE /\ Cardinality(DOMAIN out) <= Len(kids)
            /\ keys \subseteq DOMAIN out
            /\ \A k \in DOMAIN out : \E i \in DOMAIN kids : IsSuffix(k, kids[i].tag)
            /\ plain = DOMAIN kids =>
                 /\ DOMAIN out = keys
                 /\ \A k \in keys :
                      out[k] = Lit(IF kids[last(k)].text = None THEN "" ELSE kids[last(k)].text[1])
            /\ Key("deep") \notin DOMAIN out

\* two namespaced children with distinct local names, one with a grandchild and no text
C10_Witness ==
  /\ ret # <<>> /\ arg.kind = "xml" /\ Len(arg.repr) = 2
  /\ arg.repr[1].tag = ElementTag(<<"u">>, "call") /\ arg.repr[1].sub # <<>> /\ arg.repr[1].text = None
  /\ arg.repr[2].tag = ElementTag(<<"u">>, "band")
  /\ DOMAIN ret[1] = {Key("call"), Key("band")}
  /\ ret[1][Key("call")] = Lit("")

\* the sequence has this element
Has(seq, x) == \E i \in DOMAIN seq : seq[i] = x

\* the property names of a JSON object text
NamesOf(data) == {data.repr[i].key : i \in DOMAIN data.repr}

\* C11: for a packet of the JTDX port the XML parser is called if and only if the text is
\* not a JSON object; for a JSON object of any size the fields are the object's property
\* names, each with a string value, and no parse error is logged.
C11_XmlOnlyWhenNotJsonObject ==
  (ret # <<>> /\ ret[1].source = "JTDX") =>
    /\ Has(ret[1].calls, "json")
    /\ Has(ret[1].calls, "xml") <=> (arg.kind # "jsonobj")
    /\ arg.kind = "jsonobj" =>
         /\ DOMAIN ret[1].fields = NamesOf(arg)
         /\ \A k \in DOMAIN ret[1].fields : ret[1].fields[k].kind = "lit"
         /\ ret[1].lines = <<>>

\* C12: for every datagram, valid UTF-8 or not, empty or all NUL, the decoder produces a
\* string, and the string does not end in NUL; an empty or all-NUL datagram gives ''.
C12_DecodedHasNoTrailingNul ==
  ret # <<>> =>
    /\ ret[1].kind = "chars"
    /\ ret[1].len = Len(ret[1].repr)
    /\ ret[1].repr # <<>> => ret[1].repr[Len(ret[1].repr)] # 0
    /\ (\A i \in DOMAIN arg.repr : arg.repr[i] = 0) => ret[1].repr = <<>>

\* a datagram of a byte that is not UTF-8 followed by two NULs was decoded
C12_Witness ==
  /\ arg.kind = "bytes" /\ arg.repr = <<255, 0, 0>>
  /\ ret = <<Chars(<<Replacement>>)>>

\* the last position of the sequence that satisfies Is
LastWhere(seq, Is(_)) == CHOOSE i \in DOMAIN seq : Is(seq[i]) /\ \A j \in DOMAIN seq : Is(seq[j]) => j <= i

\* the field k of the extracted map has no value in the text: the last direct child (XML) or
\* property (JSON object) that sets it has no text, or is null
Valueless(source, data, k) ==
  LET sets(x) == IF data.kind = "xml" THEN LocalName(x.tag) = k ELSE x.key = k
      last == data.repr[LastWhere(data.repr, sets)]
  IN IF data.kind = "xml" THEN last.text = None
     ELSE source = "JTDX" /\ data.kind = "jsonobj" /\ last.val.t = "null"

\* C13: every value of the extracted map is a string, and a field whose element has no text
\* or whose JSON value is null has the empty string.
C13_AbsentOrNullIsEmptyString ==
  ret # <<>> =>
    \A k \in DOMAIN ret[1].fields :
      /\ ret[1].fields[k].kind = "lit"
      /\ Valueless(ret[1].source, arg, k) => ret[1].fields[k] = Lit("")

\* C17: the source alone selects the extraction: for the N1MM port only the XML parser is
\* called, whatever the text, so a JSON object gives no fields and one logged XML parse
\* error; for the JTDX port the JSON parser is called first, and the same JSON object
\* gives one field per property name.
C17_StrategyBySourceAlone ==
  ret # <<>> =>
    /\ ret[1].source = "N1MM" =>
         /\ ret[1].calls = <<"xml">>
         /\ arg.kind = "jsonobj" =>
              /\ ret[1].fields = EmptyDict
              /\ Len(ret[1].lines) = 1 /\ ret[1].lines[1].k = "xmlerr"
    /\ ret[1].source = "JTDX" =>
         /\ Head(ret[1].calls) = "json"
         /\ arg.kind = "jsonobj" => DOMAIN ret[1].fields = NamesOf(arg)

\* a JSON object with two properties was given to the extraction of the N1MM port
C17_Witness ==
  /\ arg = JsonSpot
  /\ ret # <<>> /\ ret[1].source = "N1MM"
  /\ ret[1].fields = EmptyDict /\ ret[1].lines # <<>>

\* the unit at position i of source s is in this state
UnitIs(s, i, pc) == i \in DOMAIN units[s] /\ units[s][i].pc = pc

\* C14: every started dispatch unit eventually finishes.
C14_EveryUnitFinishes ==
  \A s \in Sources : \A i \in 1..MaxLoops : UnitIs(s, i, "running") ~> UnitIs(s, i, "done")

\* C14 as amended: a started dispatch unit is never removed or changed by anything but its
\* own completion, which is one POST (success, timeout or error) and its outcome line, and a
\* finished unit stays finished; every started unit eventually finishes unless the process
\* terminates first, and then the units in flight stay unfinished with no outcome line.
C14_UnitFinishesUnlessProcessEnds ==
  /\ [][\A s \in Sources : \A i \in DOMAIN units[s] :
          /\ i \in DOMAIN units'[s]
          /\ \/ units'[s][i] = units[s][i]
             \/ /\ Running
                /\ units[s][i].pc = "running"
                /\ units'[s][i] = [units[s][i] EXCEPT !.pc = "done", !.posts = 1, !.lines = 1]
                /\ Len(log'[s]) = Len(log[s]) + 1
                /\ log'[s][Len(log'[s])].k \in {"post", "posterr"}
                /\ log'[s][Len(log'[s])].n = units[s][i].id[2]]_vars
  /\ [][~Running => UNCHANGED <<units, log>>]_vars
  /\ \A s \in Sources : \A i \in 1..MaxLoops :
       UnitIs(s, i, "running") ~> (UnitIs(s, i, "done") \/ ~Running)

\* the process ended while one unit was in flight, after another had finished with an error
C14_Witness ==
  /\ ~Running
  /\ \E x, y \in Units :
       /\ Unit(x).pc = "running" /\ LinesOf({"post", "posterr"}, Unit(x).id) = {}
       /\ Unit(y).pc = "done" /\ LinesOf({"posterr"}, Unit(y).id) # {}

\* the listener's socket is bound: it has logged that it listens
Bound(s) == "listening" \in KindsAbout(s)

\* C15: a listener that has bound its socket is for ever receiving (waiting in recvfrom or
\* handling the datagram) or recovering from an error; from receiving it only goes on
\* receiving or starts recovering, from recovering it only goes back to receiving, and a
\* listener stops only from the unbound state, by a failed bind.
C15_BoundListenerNeverStops ==
  /\ [](\A s \in Sources : Bound(s) => lpc[s] \in {"recv", "handle", "sleep"})
  /\ [][\A s \in Sources :
          /\ lpc[s] \in {"recv", "handle"} => lpc'[s] \in {"recv", "handle", "sleep"}
          /\ lpc[s] = "sleep" => lpc'[s] \in {"sleep", "recv"}
          /\ (lpc'[s] = "dead" /\ lpc[s] # "dead") =>
               /\ lpc[s] = "bind" /\ ~Bound(s)
               /\ log'[s] = <<Line("bindfail", s, 0, NoText)>>]_vars

\* a listener is receiving again after a receive error and after a packet whose handling raised
C15_Witness ==
  \E s \in Sources :
    /\ Bound(s) /\ lpc[s] = "recv"
    /\ nerr[s] > 0
    /\ \E id \in DOMAIN rcvd : id[1] = s /\ Raised(id)

\* positions in log[s] of the POST outcome line of the k-th packet of s
OutcomeAt(s, k) == LinesOf({"post", "posterr"}, <<s, k>>)

\* C16: no order is kept among the dispatch units: whichever units are in flight, each of
\* them can be the next to finish, with any outcome, whatever the receipt order was.
C16_AnyUnitInFlightMayFinishNext ==
  \A x \in Units :
    Unit(x).pc = "running" => \A o \in Outcomes : ENABLED post_form(x[1], x[2], o)

\* packets 1 and 2 of one listener were received in that order and the outcome of packet 2
\* is in the log before the outcome of packet 1
C16_Witness ==
  \E s \in Sources :
    /\ <<s, 1>> \in DOMAIN rcvd /\ <<s, 2>> \in DOMAIN rcvd
    /\ \E i \in OutcomeAt(s, 2), j \in OutcomeAt(s, 1) : i < j

\* positions in log[s] of the lines handle_packet and its parsers wrote for the k-th packet
HandlingAt(s, k) == LinesOf({"rx", "xmlerr"}, <<s, k>>)

\* C18: a listener handles its packets one at a time and in receipt order: when it receives
\* a packet, every earlier packet of that source has been handled to the end (it has its
\* dispatch unit, or its handling raised); the log lines of handling one packet all precede
\* those of the next; the dispatch units of a source are in receipt order; and the receipt
\* line of a packet precedes its POST outcome line.
C18_OnePacketAtATimeInOrder ==
  /\ [](\A s \in Sources :
         /\ \A k \in 1..nrecv[s] :
              (k < nrecv[s] \/ lpc[s] # "handle") => (UnitsOf(<<s, k>>) # {} \/ Raised(<<s, k>>))
         /\ \A i, j \in DOMAIN units[s] : i < j => units[s][i].id[2] < units[s][j].id[2]
         /\ \A k \in 1..nrecv[s] : \A l \in 1..nrecv[s] :
              k < l => \A i \in HandlingAt(s, k), j \in HandlingAt(s, l) : i < j
         /\ \A x \in Units :
              x[1] = s =>
                /\ Cardinality(LinesOf({"rx"}, Unit(x).id)) = 1
                /\ \A i \in LinesOf({"rx"}, Unit(x).id), j \in OutcomeAt(s, Unit(x).id[2]) : i < j)
  /\ [][\A s \in Sources :
          nrecv'[s] # nrecv[s] =>
            /\ nrecv'[s] = nrecv[s] + 1
            /\ lpc[s] = "recv"
            /\ \A k \in 1..nrecv[s] : UnitsOf(<<s, k>>) # {} \/ Raised(<<s, k>>)]_vars

\* one listener has handled two packets; the POST of the second is finished, that of the
\* first is not
C18_Witness ==
  \E s \in Sources :
    /\ nrecv[s] = 2 /\ lpc[s] = "recv"
    /\ Len(units[s]) = 2
    /\ units[s][1].pc = "running" /\ units[s][2].pc = "done"
    /\ OutcomeAt(s, 2) # {}

\* C19: handle_packet ends in one of two ways: its dispatch unit is started and the listener
\* receives again, or it raises, and then the receive loop logs a receive error for the
\* packet, starts no unit and sleeps; a packet whose handling raised has one receive error
\* line, never a dispatch unit and never a POST outcome line; and the sleeping listener gets
\* back to receiving.
C19_RaisedHandlingDropsThePacket ==
  /\ [][\A s \in Sources :
          (lpc[s] = "handle" /\ lpc'[s] # "handle") =>
            \/ /\ lpc'[s] = "recv"
               /\ Len(units'[s]) = Len(units[s]) + 1
               /\ units'[s][Len(units'[s])].id = <<s, nrecv[s]>>
               /\ ~Raised(<<s, nrecv[s]>>)'
            \/ /\ lpc'[s] = "sleep"
               /\ units' = units
               /\ log'[s][Len(log'[s])] = Line("recverr", s, nrecv[s], NoText)
               /\ nrecv' = nrecv /\ nerr' = nerr]_vars
  /\ [](\A id \in DOMAIN rcvd :
         Raised(id) =>
           /\ Cardinality(LinesOf({"recverr"}, id)) = 1
           /\ UnitsOf(id) = {}
           /\ OutcomeAt(id[1], id[2]) = {})
  /\ \A s \in Sources :
       (lpc[s] = "sleep" /\ nrecv[s] > 0 /\ Raised(<<s, nrecv[s]>>)) ~> (lpc[s] = "recv")

\* the thread of packet 1 could not be started: its receipt is logged, it has no unit and no
\* outcome line, and the listener went on to dispatch packet 2
C19_Witness ==
  \E s \in Sources :
    /\ Raised(<<s, 1>>) /\ LinesOf({"rx"}, <<s, 1>>) # {}
    /\ UnitsOf(<<s, 1>>) = {}
    /\ \E x \in UnitsOf(<<s, 2>>) : Unit(x).pc = "done"

====
